---- MODULE Spec2Model ----
(***************************************************************************)
(* Model of the maze generator of src/maze/src/main.rs: the Maze struct,   *)
(* its raster, the neighbour geometry and randomized_prim.                 *)
(*                                                                         *)
(* The raster is modelled pixel by pixel, because the state of a cell is   *)
(* read back from the colour of its top-left pixel (cell_kind).  A runtime *)
(* failure (an out-of-range put_pixel/get_pixel of the image crate, an     *)
(* unsigned underflow, a remainder by zero) is recorded in `fail` and ends *)
(* the run in pc = "panic"; the pixels written before it stay written.     *)
(***************************************************************************)
EXTENDS Integers, Sequences, FiniteSets, TLC

\* ---------------------------------------------------------------- bounds
MaxCells     == 7     \* logical grids of at most MaxCells cells are explored
MaxPixelSize == 2     \* cell sizes 1..MaxPixelSize, and always the program's 4
MaxGeometryLen == 3   \* --geometry arguments of at most this many characters

\* ------------------------------------------------------ program constants
CellSize       == 4                \* generate_image: Maze::new(width, height, 4)
DirectionCount == 4                \* impl Rand for Direction: next_u32() % 4
\* Colours are Rgb<u8> triples, packed here as r * 2^16 + g * 2^8 + b.
Rgb(r, g, b) == r * 65536 + g * 256 + b
path_color == Rgb(253, 246, 227)
wall_color == Rgb(7, 54, 66)
blank      == Rgb(0, 0, 0)         \* RgbImage::new zero-fills the buffer

VARIABLES
  width, height, pixel_size,       \* Maze fields (pixel dimensions, cell size)
  grid_width, grid_height,         \* Maze fields (logical dimensions)
  img,                             \* Maze.img: the row-major pixel buffer
  walls,                           \* the frontier vector of randomized_prim
  pc,                              \* "main" | "prim" | "loop" | "done" | "panic"
  fail,                            \* "none" or the kind of runtime failure
  hist,                            \* history of the growth (see Hist0)
  geometry                         \* the --geometry argument of main

vars == <<width, height, pixel_size, grid_width, grid_height,
          img, walls, pc, fail, hist, geometry>>

\* ------------------------------------------------------------ data types
Coord(x, y) == [x |-> x, y |-> y]
start       == Coord(0, 0)
None        == <<>>
Some(c)     == <<c>>
Directions  == <<"Up", "Down", "Left", "Right">>

\* impl Rand for Direction: next_u32() % 4
Direction_rand(n) ==
  CASE n % DirectionCount = 0 -> "Up"
    [] n % DirectionCount = 1 -> "Down"
    [] n % DirectionCount = 2 -> "Left"
    [] OTHER                  -> "Right"

\* The random words: one representative of every residue class of the
\* modulus they are reduced by (rand % len, next_u32() % 4).
Words(modulus) == 0..(IF modulus = 0 THEN 0 ELSE modulus - 1)

\* History variables: which cells were pushed, which pops connected a cell
\* (step 2d) and which missed, and how often the loop body ran.
Hist0 == [enqueued |-> {},      \* cells pushed onto the frontier
          painted  |-> {},      \* cells handed to draw_path / draw_wall
          removed  |-> {},      \* popped cells of successful iterations
          sampled  |-> {},      \* sampled neighbours of successful iterations
          missed   |-> {},      \* popped cells of unsuccessful iterations
          pushes   |-> 0,       \* number of walls.push calls
          pops     |-> 0,       \* number of pop_random_wall calls
          iters    |-> 0]       \* iterations of the main loop

\* The mutable state the methods work on, threaded through the calls.
Machine(im, ws, f, h) == [img |-> im, walls |-> ws, fail |-> f, hist |-> h]

\* The one element of a singleton set.  {F(m) : m \in {e}} evaluates e once
\* and binds its value, where F(e) would evaluate e at every use.
The(S) == CHOOSE v \in S : TRUE

\* ------------------------------------------------------------ the raster
\* image::ImageBuffer::put_pixel and get_pixel panic when (x, y) is outside
\* the buffer.
in_buffer(x, y) == x < width /\ y < height

\* ImageBuffer keeps the pixels row by row; sequences start at 1.
pixel_index(x, y) == y * width + x + 1

\* The nested loops of draw_path / draw_wall: i (the x offset) is the outer
\* loop, j the inner one; the k-th put_pixel call (k = i * pixel_size + j,
\* counted from 0) writes pixel cell_pixel(c, k).  The calls before the first
\* one outside the buffer take effect, that one panics.
cell_pixel(c, k) ==
  <<c.x * pixel_size + (k \div pixel_size), c.y * pixel_size + (k % pixel_size)>>

fill_pixels(M, c, color) ==
  IF M.fail # "none" THEN M
  ELSE LET n     == pixel_size * pixel_size
           bad   == {k \in 0..(n - 1) :
                       ~in_buffer(cell_pixel(c, k)[1], cell_pixel(c, k)[2])}
           first == IF bad = {} THEN n
                    ELSE CHOOSE k \in bad : \A m \in bad : k <= m
           done  == {pixel_index(cell_pixel(c, k)[1], cell_pixel(c, k)[2]) :
                       k \in 0..(first - 1)}
       IN [M EXCEPT !.img = [p \in done |-> color] @@ @,
                    !.hist.painted = @ \cup {c},
                    !.fail = IF bad = {} THEN "none" ELSE "put_pixel"]

fill_cell(M, c, color) == The({fill_pixels(m, c, color) : m \in {M}})

draw_path(M, c) == fill_cell(M, c, path_color)

draw_wall(M, c) == fill_cell(M, c, wall_color)

\* cell_kind: "Fail" stands for the panic of get_pixel outside the buffer.
cell_kind(im, c) ==
  IF c.x >= grid_width \/ c.y >= grid_height THEN "Undefined"
  ELSE IF ~in_buffer(c.x * pixel_size, c.y * pixel_size) THEN "Fail"
  ELSE LET p == im[pixel_index(c.x * pixel_size, c.y * pixel_size)] IN
       IF p = wall_color THEN "Wall"
       ELSE IF p = path_color THEN "Path"
       ELSE "Undefined"

\* ---------------------------------------------------- neighbour geometry
\* grid_height - 1 and grid_width - 1 are u32 subtractions.  On a zero
\* dimension a debug build panics and a release build wraps to 2^32 - 1,
\* which no coordinate of the model reaches: underflows(..) flags the call
\* and the wrapped comparison is false.
underflows(dir) ==
  \/ dir = "Down"  /\ grid_height = 0
  \/ dir = "Right" /\ grid_width = 0

get_coord_up(c) ==
  IF c.y = 0 THEN None ELSE Some(Coord(c.x, c.y - 1))

get_coord_down_off_by_one(c) ==
  IF grid_height # 0 /\ c.y > grid_height - 1 THEN None
  ELSE Some(Coord(c.x, c.y + 1))

get_coord_down(c) ==
  IF grid_height # 0 /\ c.y >= grid_height - 1 THEN None
  ELSE Some(Coord(c.x, c.y + 1))

get_coord_left(c) ==
  IF c.x = 0 THEN None ELSE Some(Coord(c.x - 1, c.y))

get_coord_right_off_by_one(c) ==
  IF grid_width # 0 /\ c.x > grid_width - 1 THEN None
  ELSE Some(Coord(c.x + 1, c.y))

get_coord_right(c) ==
  IF grid_width # 0 /\ c.x >= grid_width - 1 THEN None
  ELSE Some(Coord(c.x + 1, c.y))

get_coord_next(c, dir) ==
  CASE dir = "Up"    -> get_coord_up(c)
    [] dir = "Down"  -> get_coord_down(c)
    [] dir = "Left"  -> get_coord_left(c)
    [] dir = "Right" -> get_coord_right(c)

\* ------------------------------------------------------------- frontier
\* The body of the `for d in dirs` loop of add_walls_around, for direction dir.
visit_body_any_kind(M, c, dir) ==
  IF M.fail # "none" THEN M
  ELSE IF underflows(dir) THEN [M EXCEPT !.fail = "underflow"]
  ELSE LET o == get_coord_next(c, dir) IN
       IF o = None THEN M
       ELSE LET w == o[1]
                D == draw_wall(M, w) IN
            IF D.fail # "none" THEN D
            ELSE [D EXCEPT !.walls = Append(@, w),
                           !.hist.enqueued = @ \cup {w},
                           !.hist.pushes = @ + 1]

visit_body(M, c, dir) ==
  IF M.fail # "none" THEN M
  ELSE IF underflows(dir) THEN [M EXCEPT !.fail = "underflow"]
  ELSE LET o == get_coord_next(c, dir) IN
       IF o = None THEN M
       ELSE LET w == o[1]
                k == cell_kind(M.img, w) IN
            IF k = "Fail" THEN [M EXCEPT !.fail = "get_pixel"]
            ELSE IF k = "Undefined"
                 THEN LET D == draw_wall(M, w) IN
                      IF D.fail # "none" THEN D
                      ELSE [D EXCEPT !.walls = Append(@, w),
                                     !.hist.enqueued = @ \cup {w},
                                     !.hist.pushes = @ + 1]
                 ELSE M

visit_dir(M, c, dir) == The({visit_body(m, c, dir) : m \in {M}})

add_walls_around(M, c) ==
  visit_dir(visit_dir(visit_dir(visit_dir(M, c, Directions[1]),
                                c, Directions[2]),
                      c, Directions[3]),
            c, Directions[4])

\* Vec::swap_remove(pos): the last element takes the place of the removed one.
swap_remove(ws, pos) ==
  LET last == Len(ws) IN
  [i \in 1..(last - 1) |-> IF i = pos + 1 THEN ws[last] ELSE ws[i]]

pop_random_wall_peek(M, r) ==
  IF Len(M.walls) = 0
  THEN [m |-> [M EXCEPT !.fail = "rem_by_zero"], w |-> start]
  ELSE LET pos == r % Len(M.walls) IN
       [m |-> [M EXCEPT !.hist.pops = @ + 1], w |-> M.walls[pos + 1]]

\* pop_random_wall: r is the random usize.  Returns the popped wall in .w;
\* r % 0 is a panic (remainder by zero).
pop_random_wall(M, r) ==
  IF Len(M.walls) = 0
  THEN [m |-> [M EXCEPT !.fail = "rem_by_zero"], w |-> start]
  ELSE LET pos == r % Len(M.walls) IN
       [m |-> [M EXCEPT !.walls = swap_remove(@, pos),
                        !.hist.pops = @ + 1],
        w |-> M.walls[pos + 1]]

\* --------------------------------------------------------------- Maze::new
\* The border strips: columns x >= grid_width * pixel_size over all rows, then
\* rows y >= grid_height * pixel_size over all columns.
new_img(w, h, ps) ==
  LET gw == w \div ps
      gh == h \div ps IN
  [i \in 1..(w * h) |->
     IF (i - 1) % w >= gw * ps \/ (i - 1) \div w >= gh * ps
     THEN wall_color ELSE blank]

\* width - grid_width * pixel_size and height - grid_height * pixel_size
new_underflows(w, h, ps) ==
  \/ w < (w \div ps) * ps
  \/ h < (h \div ps) * ps

\* The geometries explored: every cell size in PixelSizes with every pixel
\* width and height (remainders included) whose logical grid has at most
\* MaxCells cells; a grid with a zero dimension has none.
PixelSizes == (1..MaxPixelSize) \cup {CellSize}

Geometries ==
  {g \in [w : 0..((MaxCells + 1) * CellSize - 1),
          h : 0..((MaxCells + 1) * CellSize - 1),
          ps : PixelSizes] :
     /\ g.w \div g.ps <= MaxCells
     /\ g.h \div g.ps <= MaxCells
     /\ (g.w \div g.ps) * (g.h \div g.ps) <= MaxCells}

Init ==
  \E g \in Geometries :
    /\ width = g.w
    /\ height = g.h
    /\ pixel_size = g.ps
    /\ grid_width = g.w \div g.ps
    /\ grid_height = g.h \div g.ps
    /\ img = new_img(g.w, g.h, g.ps)
    /\ walls = <<>>
    /\ fail = IF new_underflows(g.w, g.h, g.ps) THEN "underflow" ELSE "none"
    /\ pc = IF new_underflows(g.w, g.h, g.ps) THEN "panic" ELSE "prim"
    /\ hist = Hist0
    /\ geometry = <<>>

\* ------------------------------------------------------- randomized_prim
\* `while !walls.is_empty()`: the loop is re-entered or the function returns.
loop_test_early_exit(ws) == IF Len(ws) <= 1 THEN "done" ELSE "loop"

loop_test(ws) == IF Len(ws) = 0 THEN "done" ELSE "loop"

commit(M, h) ==
  /\ img' = M.img
  /\ walls' = M.walls
  /\ fail' = M.fail
  /\ hist' = h
  /\ pc' = IF M.fail # "none" THEN "panic" ELSE loop_test(M.walls)
  /\ UNCHANGED <<width, height, pixel_size, grid_width, grid_height, geometry>>

\* Lines 225-227, the successful step: expand around the sampled neighbour c,
\* then paint c and the removed wall w as paths.
connect_without_wall(M, w, c) == draw_path(add_walls_around(M, c), c)

connect_without_neighbour(M, w, c) == draw_path(add_walls_around(M, c), w)

connect(M, w, c) == draw_path(draw_path(add_walls_around(M, c), c), w)

\* Lines 213-216: paint the start cell and enqueue its neighbours.
prim_start ==
  /\ pc = "prim"
  /\ LET M0 == Machine(img, <<>>, fail, hist)
         M2 == add_walls_around(draw_path(M0, start), start)
     IN commit(M2, M2.hist)

\* One iteration of the main loop (lines 220-229) with random words r and n.
prim_iteration(r, n) ==
  /\ pc = "loop"
  /\ LET P  == pop_random_wall(Machine(img, walls, fail, hist), r)
         M1 == [P.m EXCEPT !.hist.iters = @ + 1]
         w  == P.w
         dir == Direction_rand(n)
     IN IF M1.fail # "none" THEN commit(M1, M1.hist)
        ELSE IF underflows(dir)
             THEN commit([M1 EXCEPT !.fail = "underflow"], M1.hist)
        ELSE LET o == get_coord_next(w, dir) IN
             IF o = None
             THEN commit(M1, [M1.hist EXCEPT !.missed = @ \cup {w}])
             ELSE LET c == o[1]
                      k == cell_kind(M1.img, c) IN
                  IF k = "Fail"
                  THEN commit([M1 EXCEPT !.fail = "get_pixel"], M1.hist)
                  ELSE IF k = "Undefined"
                  THEN LET M4 == connect(M1, w, c)
                       IN commit(M4, IF M4.fail # "none" THEN M4.hist
                                     ELSE [M4.hist EXCEPT
                                             !.removed = @ \cup {w},
                                             !.sampled = @ \cup {c}])
                  ELSE commit(M1, [M1.hist EXCEPT !.missed = @ \cup {w}])

Next ==
  \/ prim_start
  \/ \E r \in Words(Len(walls)), n \in Words(DirectionCount) :
        prim_iteration(r, n)

Spec == Init /\ [][Next]_vars

\* randomized_prim is a sequential loop: a step that can be taken is taken.
FairSpec == Spec /\ WF_vars(Next)

\* ------------------------------------------------------------------ main
\* Strings are sequences of one-character strings.
Digit(ch) ==
  CASE ch = "0" -> 0 [] ch = "1" -> 1 [] ch = "2" -> 2 [] ch = "3" -> 3
    [] ch = "4" -> 4 [] ch = "5" -> 5 [] ch = "6" -> 6 [] ch = "7" -> 7
    [] ch = "8" -> 8 [] ch = "9" -> 9 [] OTHER -> -1

\* str::split('x'): the pieces between the separators, empty ones included.
RECURSIVE split(_)
split(str) ==
  LET xs == {i \in 1..Len(str) : str[i] = "x"} IN
  IF xs = {} THEN <<str>>
  ELSE LET k == CHOOSE i \in xs : \A j \in xs : i <= j IN
       <<SubSeq(str, 1, k - 1)>> \o split(SubSeq(str, k + 1, Len(str)))

\* str::parse::<u32>().ok(): None for the empty string and for any character
\* that is not a decimal digit.  (The strings explored have no sign and fewer
\* than ten digits, so they cannot exceed u32.)
RECURSIVE digits_value(_)
digits_value(str) ==
  IF Len(str) = 0 THEN 0
  ELSE digits_value(SubSeq(str, 1, Len(str) - 1)) * 10 + Digit(str[Len(str)])

parse_u32(str) ==
  IF Len(str) = 0 \/ \E i \in 1..Len(str) : Digit(str[i]) < 0 THEN None
  ELSE Some(digits_value(str))

\* geometry_parse: None stands for panic!("invalid geometry") / expect(..).
geometry_parse(str) ==
  LET parts == split(str) IN
  IF Len(parts) # 2 THEN None
  ELSE LET w == parse_u32(parts[1])
           h == parse_u32(parts[2]) IN
       IF w = None \/ h = None THEN None
       ELSE Some([w |-> w[1], h |-> h[1]])

\* main up to the call of randomized_prim: parse the geometry, then
\* generate_image builds Maze::new(width, height, 4).
main ==
  /\ pc = "main"
  /\ LET g == geometry_parse(geometry) IN
     IF g = None
     THEN /\ pc' = "panic"
          /\ fail' = "invalid geometry"
          /\ UNCHANGED <<width, height, pixel_size, grid_width, grid_height,
                         img>>
     ELSE /\ width' = g[1].w
          /\ height' = g[1].h
          /\ pixel_size' = CellSize
          /\ grid_width' = g[1].w \div CellSize
          /\ grid_height' = g[1].h \div CellSize
          /\ img' = new_img(g[1].w, g[1].h, CellSize)
          /\ fail' = IF new_underflows(g[1].w, g[1].h, CellSize)
                     THEN "underflow" ELSE "none"
          /\ pc' = IF new_underflows(g[1].w, g[1].h, CellSize)
                   THEN "panic" ELSE "prim"
  /\ UNCHANGED <<walls, hist, geometry>>

\* The arguments explored: every string of at most MaxGeometryLen characters
\* over digits, the separator and a letter.
Alphabet == {"0", "1", "8", "x", "a"}

Strings == UNION {[1..n -> Alphabet] : n \in 0..MaxGeometryLen}

MainInit ==
  /\ geometry \in Strings
  /\ pc = "main"
  /\ width = 0 /\ height = 0 /\ pixel_size = CellSize
  /\ grid_width = 0 /\ grid_height = 0
  /\ img = <<>>
  /\ walls = <<>>
  /\ fail = "none"
  /\ hist = Hist0

\* main from the command line to the maze handed to randomized_prim; the run
\* goes on from there as in Spec.
MainSpec == MainInit /\ [][main]_vars

\* ============================================================ properties
Cells     == {Coord(x, y) : x \in 0..(grid_width - 1), y \in 0..(grid_height - 1)}
Kind(c)   == cell_kind(img, c)
PathCells == {c \in Cells : Kind(c) = "Path"}
WallCells == {c \in Cells : Kind(c) = "Wall"}
UndefinedCells == {c \in Cells : Kind(c) = "Undefined"}
WellFormed == grid_width >= 1 /\ grid_height >= 1
Finished  == pc = "done"

Adjacent(a, b) ==
  \/ a.x = b.x /\ (a.y = b.y + 1 \/ b.y = a.y + 1)
  \/ a.y = b.y /\ (a.x = b.x + 1 \/ b.x = a.x + 1)

\* The cells of S reachable from R through cells of S by 4-adjacency.
RECURSIVE Reach(_, _)
Reach(R, S) ==
  LET N == R \cup {c \in S : \E r \in R : Adjacent(r, c)} IN
  IF N = R THEN R ELSE Reach(N, S)

\* A graph has no cycle iff repeatedly removing the vertices of degree <= 1
\* removes every vertex.
RECURSIVE Core(_)
Core(S) ==
  LET leaves == {c \in S : Cardinality({d \in S : Adjacent(c, d)}) <= 1} IN
  IF leaves = {} THEN S ELSE Core(S \ leaves)

Acyclic(S) == Core(S) = {}

\* C1: on every grid with grid_width, grid_height >= 1, when randomized_prim
\* ends the start cell (0,0) is Path and every Path cell is reachable from
\* (0,0) through Path cells by 4-adjacency.
C1_PathConnected ==
  (Finished /\ WellFormed) =>
     /\ Kind(start) = "Path"
     /\ Reach({start}, PathCells) = PathCells

C1_Witness ==
  Finished /\ WellFormed /\ Cardinality(PathCells) >= 5

\* C2: when randomized_prim ends, the graph of the Path cells under
\* 4-adjacency contains no cycle.
C2_PathAcyclic ==
  (Finished /\ WellFormed) => Acyclic(PathCells)

\* C3: on every grid with grid_width, grid_height >= 1 randomized_prim
\* terminates, and at termination the frontier is empty.
C3_Terminates ==
  (pc = "prim" /\ WellFormed) ~> (Finished /\ walls = <<>>)

C3_Witness ==
  Finished /\ WellFormed /\ walls = <<>> /\ hist.iters >= 3

\* C4 (as stated): on a 2x2 logical grid, after generation (0,0) is Path and
\* at least one of its neighbours (1,0), (0,1) is Path.
TwoByTwo == grid_width = 2 /\ grid_height = 2

C4_SomeNeighbourIsPath ==
  (Finished /\ TwoByTwo) =>
     /\ Kind(start) = "Path"
     /\ Kind(Coord(1, 0)) = "Path" \/ Kind(Coord(0, 1)) = "Path"

\* C4 (amended): on a 2x2 logical grid, after generation (0,0) is Path, each
\* of its neighbours (1,0), (0,1) is Wall or Path, at most one of them is
\* Path, and one is Path exactly when (1,1) is Path.
C4_NeighboursResolved ==
  (Finished /\ TwoByTwo) =>
     /\ Kind(start) = "Path"
     /\ Kind(Coord(1, 0)) \in {"Wall", "Path"}
     /\ Kind(Coord(0, 1)) \in {"Wall", "Path"}
     /\ ~(Kind(Coord(1, 0)) = "Path" /\ Kind(Coord(0, 1)) = "Path")
     /\ (Kind(Coord(1, 0)) = "Path" \/ Kind(Coord(0, 1)) = "Path")
          <=> Kind(Coord(1, 1)) = "Path"

\* The 8x8 image with cell size 4 ends with both neighbours of (0,0) Wall.
C4_Witness ==
  /\ Finished /\ TwoByTwo
  /\ width = 8 /\ height = 8 /\ pixel_size = CellSize
  /\ Kind(Coord(1, 0)) = "Wall" /\ Kind(Coord(0, 1)) = "Wall"

\* C5: with grid_width, grid_height >= 1 nothing fails at runtime: no pixel
\* access outside the raster, no unsigned underflow, no pop on an empty
\* frontier, and only cells inside the grid are painted.
C5_NoRuntimeFailure ==
  WellFormed =>
     /\ fail = "none"
     /\ pc # "panic"
     /\ hist.painted \subseteq Cells
     /\ hist.pops = hist.iters

C5_Witness ==
  /\ Finished /\ WellFormed /\ fail = "none"
  /\ width > grid_width * pixel_size /\ height > grid_height * pixel_size
  /\ pixel_size = CellSize
  /\ hist.iters >= 3 /\ Cardinality(hist.painted) >= 5

\* C6: with grid_width = 0 or grid_height = 0 generation is a no-op: no
\* runtime failure, no cell painted, the raster as Maze::new left it and the
\* frontier empty.
C6_ZeroGridNoOp ==
  (grid_width = 0 \/ grid_height = 0) =>
     /\ fail = "none"
     /\ pc # "panic"
     /\ hist.painted = {}
     /\ img = new_img(width, height, pixel_size)
     /\ walls = <<>>

\* C7 (as stated): when randomized_prim ends, a cell is Path exactly when it
\* is the start cell or the removed cell or sampled neighbour of a successful
\* step; Wall exactly when it was enqueued and its single pop missed;
\* Undefined exactly when it was never enqueued.
PathByHistory(c) == c = start \/ c \in hist.removed \/ c \in hist.sampled
WallByHistory(c) == c \in hist.enqueued /\ c \in hist.missed
PoppedOnce ==
  /\ hist.pushes = Cardinality(hist.enqueued)
  /\ hist.pops = hist.pushes
  /\ hist.removed \cap hist.missed = {}
  /\ Cardinality(hist.removed) + Cardinality(hist.missed) = hist.pops

C7_ClassifiedByHistory ==
  (Finished /\ WellFormed) =>
     /\ PoppedOnce
     /\ \A c \in Cells :
          /\ Kind(c) = "Path" <=> PathByHistory(c)
          /\ Kind(c) = "Wall" <=> WallByHistory(c)
          /\ Kind(c) = "Undefined" <=> c \notin hist.enqueued

\* C7 (amended): as stated, except that a cell is Undefined exactly when it
\* was never enqueued and is neither the start cell nor the sampled
\* neighbour of a successful step (those are Path without ever being
\* enqueued).
C7_ClassifiedByHistoryAmended ==
  (Finished /\ WellFormed) =>
     /\ PoppedOnce
     /\ \A c \in Cells :
          /\ Kind(c) = "Path" <=> PathByHistory(c)
          /\ Kind(c) = "Wall" <=> WallByHistory(c)
          /\ Kind(c) = "Undefined" <=>
               (c \notin hist.enqueued /\ c # start /\ c \notin hist.sampled)

C7_Witness ==
  /\ Finished /\ WellFormed
  /\ hist.removed # {} /\ hist.missed # {} /\ UndefinedCells # {}

\* C8: the pixels with x >= grid_width * pixel_size or
\* y >= grid_height * pixel_size are wall-coloured in every state, and right
\* after Maze::new no other pixel has been written.
IsBorder(i) ==
  \/ (i - 1) % width >= grid_width * pixel_size
  \/ (i - 1) \div width >= grid_height * pixel_size

C8_BorderStaysWall ==
  \A i \in DOMAIN img :
     /\ IsBorder(i) => img[i] = wall_color
     /\ (pc = "prim" /\ ~IsBorder(i)) => img[i] = blank

\* C9: on a 1x1 logical grid the frontier is empty after the init step, the
\* main loop runs zero iterations, and at the end (0,0) is the only Path cell
\* and no cell is Wall.
OneByOne == grid_width = 1 /\ grid_height = 1

C9_SingleCell ==
  (OneByOne /\ pc # "prim") =>
     /\ Finished
     /\ walls = <<>>
     /\ hist.iters = 0 /\ hist.pushes = 0
     /\ PathCells = {start}
     /\ WallCells = {}

C9_Witness ==
  OneByOne /\ Finished /\ Kind(start) = "Path" /\ width > pixel_size

\* C11: for every in-grid cell and every direction, get_coord_next returns
\* None exactly when the step would leave the grid (y = 0 for Up, x = 0 for
\* Left, y = grid_height - 1 for Down, x = grid_width - 1 for Right), and
\* otherwise the coordinate shifted by one, which is again in the grid.
LeavesGrid(c, dir) ==
  \/ dir = "Up"    /\ c.y = 0
  \/ dir = "Left"  /\ c.x = 0
  \/ dir = "Down"  /\ c.y = grid_height - 1
  \/ dir = "Right" /\ c.x = grid_width - 1

Shifted(c, dir) ==
  Coord(c.x + (IF dir = "Right" THEN 1 ELSE IF dir = "Left" THEN -1 ELSE 0),
        c.y + (IF dir = "Down" THEN 1 ELSE IF dir = "Up" THEN -1 ELSE 0))

DirectionSet == {Directions[i] : i \in DOMAIN Directions}

C11_NeighbourGeometry ==
  WellFormed =>
    \A c \in Cells, dir \in DirectionSet :
       /\ ~underflows(dir)
       /\ get_coord_next(c, dir) = None <=> LeavesGrid(c, dir)
       /\ ~LeavesGrid(c, dir) =>
            /\ get_coord_next(c, dir) = Some(Shifted(c, dir))
            /\ Shifted(c, dir) \in Cells

\* A run in which the loop got None for one popped wall and a neighbour for
\* another, on a grid with interior steps in both axes.
C11_Witness ==
  /\ grid_width >= 2 /\ grid_height >= 2
  /\ hist.sampled # {}
  /\ \E w \in hist.missed, dir \in DirectionSet : get_coord_next(w, dir) = None

\* C16: at the start of every iteration every frontier coordinate is inside
\* the grid, is classified Wall and has at least one 4-adjacent Path cell.
C16_FrontierCells ==
  (pc = "loop") =>
    \A i \in 1..Len(walls) :
       /\ walls[i] \in Cells
       /\ Kind(walls[i]) = "Wall"
       /\ \E p \in PathCells : Adjacent(p, walls[i])

C16_Witness ==
  pc = "loop" /\ Len(walls) >= 2 /\ hist.sampled # {}

\* C19: the main loop runs at most grid_width * grid_height - 1 iterations:
\* the pushes of a whole run and the frontier length never exceed the number
\* of non-start cells.
NonStartCells == grid_width * grid_height - 1

C19_BoundedWork ==
  WellFormed =>
     /\ hist.iters <= NonStartCells
     /\ hist.pushes <= NonStartCells
     /\ Len(walls) <= NonStartCells

C19_Witness ==
  Finished /\ WellFormed /\ hist.iters >= 3 /\ hist.pushes = hist.iters

\* C20: at every iteration boundary and at termination the number of Path
\* cells is 1 plus twice the number of successful iterations so far (odd).
C20_OddPathCount ==
  (WellFormed /\ pc \in {"loop", "done"}) =>
     /\ Cardinality(PathCells) = 1 + 2 * Cardinality(hist.removed)
     /\ Cardinality(hist.sampled) = Cardinality(hist.removed)
     /\ hist.sampled \cap hist.removed = {}
     /\ Cardinality(PathCells) % 2 = 1

C20_Witness ==
  Finished /\ WellFormed /\ Cardinality(PathCells) = 5

\* ------------------------------------------------ properties of one step
Range(ws) == {ws[i] : i \in 1..Len(ws)}
Pushed    == hist'.enqueued \ hist.enqueued      \* cells pushed by the step
Success   == hist'.removed # hist.removed        \* the step was a step 2d
Miss      == hist'.missed # hist.missed          \* the step dropped its wall

\* C13 (as stated): some state of a generation holds the same coordinate
\* more than once in the frontier.
HasDuplicate ==
  \E i, j \in 1..Len(walls) : i # j /\ walls[i] = walls[j]

C13_FrontierHoldsDuplicate == <>HasDuplicate

\* C13 (amended): the frontier never holds a coordinate twice and no cell is
\* pushed more than once during one generation.
C13_NoDuplicates ==
  /\ ~HasDuplicate
  /\ hist.pushes = Cardinality(hist.enqueued)

\* A frontier cell reached from two directions: it touches two cells whose
\* neighbours were expanded by add_walls_around.
C13_Witness ==
  \E i \in 1..Len(walls) :
     Cardinality({p \in {start} \cup hist.sampled : Adjacent(p, walls[i])}) >= 2

\* C14 (as stated): the frontier length at the end of every iteration is
\* exactly one less than at its start.
C14_ShrinksByOne ==
  [][pc = "loop" => Len(walls') = Len(walls) - 1]_vars

\* C14 (amended): the frontier length at the end of an iteration is one less
\* than at its start plus the number of cells pushed in it: none when the
\* popped wall is dropped, the (at most 3) Undefined neighbours of the
\* sampled cell in a successful iteration.
C14_ShrinksByOnePlusPushed ==
  [][pc = "loop" =>
       /\ Len(walls') = Len(walls) - 1 + Cardinality(Pushed)
       /\ hist'.pushes = hist.pushes + Cardinality(Pushed)
       /\ Cardinality(Pushed) <= 3
       /\ Miss => Pushed = {}
       /\ Success =>
            \A d \in Pushed : \E c \in hist'.sampled \ hist.sampled :
               Adjacent(d, c) /\ Kind(d) = "Undefined"]_vars

\* After one successful iteration the frontier is no shorter than before.
C14_Witness ==
  pc = "loop" /\ hist.iters = 1 /\ hist.removed # {} /\ Len(walls) = hist.pushes - 1
     /\ hist.pushes >= 3

\* C15: an iteration whose sampled neighbour is out of bounds, Wall or Path
\* changes no cell and pushes nothing; the dropped cell is never in the
\* frontier again and is Wall in every later state.
C15_DroppedStaysWall ==
  [][/\ Miss =>
          /\ img' = img
          /\ Pushed = {}
          /\ hist'.pushes = hist.pushes
          /\ Len(walls') = Len(walls) - 1
     /\ \A c \in hist'.missed :
          /\ cell_kind(img', c) = "Wall"
          /\ c \notin Range(walls')
          /\ c \notin hist'.removed]_vars

\* A dropped cell that saw a later successful iteration.
C15_Witness ==
  /\ Finished
  /\ Cardinality(hist.missed) >= 2
  /\ \E c \in hist.missed, p \in hist.sampled : Adjacent(c, p)

\* C17: a successful step with removed cell w and sampled neighbour c turns
\* every Undefined in-grid neighbour of c into Wall and appends it once, turns
\* c and w into Path, and changes no other cell, pixel or frontier entry.
CellOfPixel(i) ==
  Coord(((i - 1) % width) \div pixel_size, ((i - 1) \div width) \div pixel_size)

C17_SuccessFrame ==
  [][Success =>
       LET w == The(hist'.removed \ hist.removed)
           c == The(hist'.sampled \ hist.sampled)
           N == {d \in Cells : Adjacent(d, c) /\ Kind(d) = "Undefined"}
       IN /\ Cardinality(hist'.removed \ hist.removed) = 1
          /\ Cardinality(hist'.sampled \ hist.sampled) = 1
          /\ w \in Range(walls) /\ Kind(w) = "Wall"
          /\ c \in Cells /\ Adjacent(w, c) /\ Kind(c) = "Undefined"
          /\ \A d \in Cells :
               cell_kind(img', d) = IF d \in {w, c} THEN "Path"
                                    ELSE IF d \in N THEN "Wall"
                                    ELSE Kind(d)
          /\ \A i \in DOMAIN img :
               img'[i] = IF CellOfPixel(i) \in {w, c} THEN path_color
                         ELSE IF CellOfPixel(i) \in N THEN wall_color
                         ELSE img[i]
          /\ DOMAIN img' = DOMAIN img
          /\ Pushed = N
          /\ Range(walls') = (Range(walls) \ {w}) \cup N
          /\ Len(walls') = Len(walls) - 1 + Cardinality(N)]_vars

\* A successful step happened that pushed a neighbour of the sampled cell.
C17_Witness ==
  /\ hist.removed # {}
  /\ \E c \in hist.sampled, d \in hist.enqueued :
        Adjacent(c, d) /\ ~Adjacent(start, d)
  /\ pixel_size = CellSize

\* C18: a cell only changes Undefined -> Wall, Undefined -> Path or
\* Wall -> Path, and draw_wall is only applied to cells that are Undefined.
C18_ForwardOnly ==
  [][/\ \A c \in Cells :
          /\ Kind(c) = "Path" => cell_kind(img', c) = "Path"
          /\ Kind(c) = "Wall" => cell_kind(img', c) \in {"Wall", "Path"}
     /\ Pushed \subseteq UndefinedCells
     /\ hist'.pushes - hist.pushes = Cardinality(Pushed)
     /\ \A c \in Pushed : cell_kind(img', c) = "Wall"]_vars

\* All three changes have happened in one run.
C18_Witness ==
  /\ Finished
  /\ hist.removed # {} /\ hist.sampled # {} /\ WallCells # {}
  /\ Cardinality(hist.enqueued) >= 3

\* C12: geometry_parse ends in a fatal error for every input that is not
\* exactly two 'x'-separated positive integers; an input whose width or
\* height is 0 is rejected and never reaches generation.
IsPositiveInteger(str) ==
  /\ Len(str) >= 1
  /\ \A i \in 1..Len(str) : str[i] \in {"0", "1", "2", "3", "4", "5", "6", "7", "8", "9"}
  /\ \E i \in 1..Len(str) : str[i] # "0"

IsGeometry(str) ==
  \E k \in 1..Len(str) :
     /\ str[k] = "x"
     /\ IsPositiveInteger(SubSeq(str, 1, k - 1))
     /\ IsPositiveInteger(SubSeq(str, k + 1, Len(str)))

C12_RejectsInvalidGeometry ==
  (pc # "main" /\ ~IsGeometry(geometry)) =>
     /\ pc = "panic"
     /\ fail = "invalid geometry"
====
